---------------------------- MODULE Spec2Model ----------------------------
(***************************************************************************)
(* ReMapper: the animation curve optimizer (src/src/anim_optimizer.ts) and  *)
(* the light remapper (src/src/light_remapper.ts).                         *)
(*                                                                         *)
(* Numbers.  Keyframe times, keyframe values and thresholds are integers   *)
(* of the model's unit (the time unit is 0.5 beat, so the times 0, 0.5, 1  *)
(* are 0, 1, 2).  Slopes and y-intercepts are exact rationals <<n, d>>     *)
(* with d > 0 in lowest terms; <<0, 0>> is NaN, which JavaScript produces  *)
(* when an index past the end of an array is read and used in arithmetic.  *)
(***************************************************************************)
EXTENDS Integers, Sequences, FiniteSets, TLC

VARIABLES
    points,       \* the caller's keyframe array, sorted and spliced in place
    input,        \* the array as it was when optimizePoints was called
    settings,     \* the OptimizeSettings of the call
    passes,       \* the passes argument
    pc,           \* "call" | "pass" | "scan" | "done" | "error"
    pass,         \* the outer loop's counter
    i,            \* the inner loop's cursor (0-based, as in the source)
    result,       \* "none" | "points" (the array itself) | "undefined"
    dummyArrays,  \* the four module-level scratch arrays
    second,       \* TRUE once optimizePoints was called again on its output
    events,       \* activeDiff.events: the light events, in order
    heap,         \* the number arrays that exist, by identity (index)
    conditions,   \* this.conditions of the LightRemapper
    processes,    \* this.processes of the LightRemapper
    lightOverrider, \* the BaseLightRemapper setIDs returned, if any
    rpc,          \* "idle" | "run": whether processEvents is inside its forEach
    cursor,       \* index of the event the forEach handles next
    runner,       \* whose processEvents is running: "this" | "lightOverrider"
    calls,        \* the calls of test and run made so far, in order
    testEvent,    \* the events test() built and processed, newest last
    events0,      \* events as first loaded
    heap0,        \* heap as first loaded
    evaluated,    \* the conditions evaluated on the last event handled, in order
    customEvents, \* the custom events of the Difficulty, in order
    customEvents0 \* customEvents as first loaded

vars == <<points, input, settings, passes, pc, pass, i, result, dummyArrays, second>>

remapVars == <<events, heap, conditions, processes, lightOverrider, rpc, cursor, runner,
               calls, testEvent, events0, heap0, evaluated>>

diffVars == <<customEvents, customEvents0>>

---------------------------------------------------------------------------
(* Bounds and input domains *)

MaxLen == 3
MaxPasses == 2

Times == {0, 1, 2}
Easings == {"easeLinear", "easeInQuad"}
Splines == {"splineLinear", "splineCatmullRom"}
DiffThresholds == {1, 2}
TimeThresholds == {0, 1}

---------------------------------------------------------------------------
(* Arithmetic on rationals with NaN *)

NaN == <<0, 0>>
IsNaN(q) == q[2] = 0
Abs(n) == IF n < 0 THEN -n ELSE n

RECURSIVE Gcd(_, _)
Gcd(a, b) == IF b = 0 THEN a ELSE Gcd(b, a % b)

Norm(n, d) ==
    LET g == Gcd(Abs(n), Abs(d))
        s == IF d < 0 THEN -1 ELSE 1
    IN  <<(s * n) \div g, (s * d) \div g>>

Num(n) == <<n, 1>>
RSub(a, b) == IF IsNaN(a) \/ IsNaN(b) THEN NaN
              ELSE Norm(a[1] * b[2] - b[1] * a[2], a[2] * b[2])
RMul(a, b) == IF IsNaN(a) \/ IsNaN(b) THEN NaN
              ELSE Norm(a[1] * b[1], a[2] * b[2])
RDiv(a, b) == IF IsNaN(a) \/ IsNaN(b) \/ b[1] = 0 THEN NaN
              ELSE Norm(a[1] * b[2], a[2] * b[1])
RAbs(a) == <<Abs(a[1]), a[2]>>
\* a >= b; every comparison with NaN is false
RGeq(a, b) == ~IsNaN(a) /\ ~IsNaN(b) /\ a[1] * b[2] >= b[1] * a[2]
RIsZero(a) == ~IsNaN(a) /\ a[1] = 0

Nums(s) == [k \in 1..Len(s) |-> Num(s[k])]
\* array[k] of a JavaScript number array (1-based here); undefined acts as NaN
At(s, k) == IF k \in 1..Len(s) THEN s[k] ELSE NaN
Max(a, b) == IF a >= b THEN a ELSE b

---------------------------------------------------------------------------
(* OptimizeMath.  A boolean function that can throw returns "true",        *)
(* "false" or "throw".                                                     *)

\* pointC of a 2-keyframe call
undefined == [id |-> -1, time |-> 0, values |-> <<>>, easing |-> "", spline |-> ""]

areArrayElementsIdentical(enumerable1, enumerable2) ==
    /\ Len(enumerable1) = Len(enumerable2)
    /\ \A k \in 1..Len(enumerable1) : enumerable1[k] = enumerable2[k]

\* a length mismatch answered like areArrayElementsIdentical does, without throwing
areFloatsSimilarNoThrow(enumerable1, enumerable2, threshold) ==
    IF Len(enumerable1) # Len(enumerable2) THEN "false"
    ELSE IF \E k \in 1..Len(enumerable1) :
                RGeq(RAbs(RSub(enumerable1[k], enumerable2[k])), Num(threshold))
         THEN "false"
         ELSE "true"

areFloatsSimilar(enumerable1, enumerable2, threshold) ==
    IF Len(enumerable1) # Len(enumerable2) THEN "throw"
    ELSE IF \E k \in 1..Len(enumerable1) :
                RGeq(RAbs(RSub(enumerable1[k], enumerable2[k])), Num(threshold))
         THEN "false"
         ELSE "true"

\* left && right: right is evaluated only when left is true
AndThen(left, right) == IF left # "true" THEN left ELSE right

arePointSimilar(a, b, differenceThreshold, timeDifferenceThreshold) ==
    AndThen(areFloatsSimilar(Nums(a.values), Nums(b.values), differenceThreshold),
            IF Abs(a.time - b.time) <= timeDifferenceThreshold THEN "true" ELSE "false")

\* slopes[i] of SlopeOfPoint, from xDiff and yDiff
slopeOf(xDiff, yDiff) ==
    IF RIsZero(xDiff) \/ RIsZero(yDiff) THEN Num(0) ELSE RDiv(yDiff, xDiff)

\* the slopes array after SlopeOfPoint(a, b, slopes)
SlopeOfPoint(a, b, slopes) ==
    [k \in 1..Max(Len(slopes), Len(b.values)) |->
        IF k > Len(b.values) THEN slopes[k]
        ELSE slopeOf(RSub(Num(b.values[k]), At(Nums(a.values), k)), Num(b.time - a.time))]

\* the yIntercepts array after GetYIntercept(pointData, slopeArray, yIntercepts)
GetYIntercept(pointData, slopeArray, yIntercepts) ==
    [k \in 1..Max(Len(yIntercepts), Len(slopeArray)) |->
        IF k > Len(slopeArray) THEN yIntercepts[k]
        ELSE RSub(Num(pointData.time),
                  RMul(slopeArray[k], At(Nums(pointData.values), k)))]

\* ComparePointsSlope returns its verdict and the four scratch arrays
\* <<middleSlope, endSlope, middleYIntercepts, endYIntercepts>> as it leaves them
slopeVerdict(similar, dummy) ==
    [skip |-> FALSE, similar |-> similar = "true", thrown |-> similar = "throw", dummy |-> dummy]

slopeSkipped(dummy) == [skip |-> TRUE, similar |-> FALSE, thrown |-> FALSE, dummy |-> dummy]

\* lines 133-142, the four arrays filled
compareSlopes(middleSlope, endSlope, middleYIntercepts, endYIntercepts, differenceThreshold, yInterceptDifferenceThreshold) ==
    slopeVerdict(AndThen(areFloatsSimilar(middleYIntercepts, endYIntercepts, yInterceptDifferenceThreshold),
                         areFloatsSimilar(middleSlope, endSlope, differenceThreshold)),
                 <<middleSlope, endSlope, middleYIntercepts, endYIntercepts>>)

\* lines 117-118, the two slope arrays filled
withIntercepts(middlePoint, endPoint, middleSlope, endSlope, dummy, differenceThreshold, yInterceptDifferenceThreshold) ==
    compareSlopes(middleSlope, endSlope,
                  GetYIntercept(middlePoint, middleSlope, dummy[3]),
                  GetYIntercept(endPoint, endSlope, dummy[4]),
                  differenceThreshold, yInterceptDifferenceThreshold)

\* lines 110-115, pause being the value of the keyframe-pause test
afterPause(pause, startPoint, middlePoint, endPoint, dummy, differenceThreshold, yInterceptDifferenceThreshold) ==
    IF pause = "throw"
    THEN [skip |-> FALSE, similar |-> FALSE, thrown |-> TRUE, dummy |-> dummy]
    ELSE IF pause = "true"
    THEN slopeSkipped(dummy)
    ELSE withIntercepts(middlePoint, endPoint,
                        SlopeOfPoint(startPoint, middlePoint, dummy[1]),
                        SlopeOfPoint(startPoint, endPoint, dummy[2]),
                        dummy, differenceThreshold, yInterceptDifferenceThreshold)

ComparePointsSlope(startPoint, middlePoint, endPoint, dummy, timeDifferenceThreshold, differenceThreshold, yInterceptDifferenceThreshold) ==
    IF \/ Abs(startPoint.time - endPoint.time) <= timeDifferenceThreshold
       \/ Abs(startPoint.time - middlePoint.time) <= timeDifferenceThreshold
       \/ Abs(middlePoint.time - endPoint.time) <= timeDifferenceThreshold
    THEN slopeSkipped(dummy)
    ELSE IF endPoint.easing # middlePoint.easing \/ endPoint.spline # middlePoint.spline
    THEN slopeSkipped(dummy)
    ELSE afterPause(IF Abs(endPoint.time - middlePoint.time) > differenceThreshold
                    THEN areFloatsSimilar(Nums(endPoint.values), Nums(middlePoint.values),
                                          differenceThreshold)
                    ELSE "false",
                    startPoint, middlePoint, endPoint, dummy,
                    differenceThreshold, yInterceptDifferenceThreshold)

---------------------------------------------------------------------------
(* The three predicates.  Each returns "point" (the keyframe it found      *)
(* redundant: pointA of a pair, pointB of a triple), "undefined" or        *)
(* "throw"; the slope predicate also returns the scratch arrays.           *)

\* middlePointUnnecessary ? point : undefined
pointIf(middlePointUnnecessary) ==
    IF middlePointUnnecessary = "throw" THEN "throw"
    ELSE IF middlePointUnnecessary = "true" THEN "point"
    ELSE "undefined"

optimizeDuplicates(pointA, pointB, pointC) ==
    IF pointC = undefined
    THEN IF areArrayElementsIdentical(pointA.values, pointB.values)
         THEN "point" ELSE "undefined"
    ELSE IF /\ areArrayElementsIdentical(pointA.values, pointB.values)
            /\ areArrayElementsIdentical(pointB.values, pointC.values)
         THEN "point" ELSE "undefined"

optimizeSimilarPoints(pointA, pointB, pointC, differenceThreshold, timeDifferenceThreshold) ==
    IF \/ pointA.easing # pointB.easing
       \/ pointA.spline # pointB.spline
       \/ (pointC # undefined /\ (pointB.spline # pointC.spline \/ pointB.easing # pointC.easing))
    THEN "undefined"
    ELSE IF pointC = undefined
    THEN pointIf(arePointSimilar(pointA, pointB, differenceThreshold, timeDifferenceThreshold))
    ELSE pointIf(AndThen(arePointSimilar(pointA, pointB, differenceThreshold, timeDifferenceThreshold),
                         arePointSimilar(pointB, pointC, differenceThreshold, timeDifferenceThreshold)))

\* line 236, middlePointUnnecessary being what ComparePointsSlope returned
slopeReturn(middlePointUnnecessary) ==
    [ret |-> IF middlePointUnnecessary.thrown THEN "throw"
             ELSE IF middlePointUnnecessary.similar THEN "point"
             ELSE "undefined",
     dummy |-> middlePointUnnecessary.dummy]

optimizeSimilarPointsSlope(pointA, pointB, pointC, dummy, differenceThreshold, timeDifferenceThreshold, yInterceptDifferenceThreshold) ==
    IF pointC = undefined
    THEN [ret |-> "undefined", dummy |-> dummy]
    ELSE IF \/ pointA.easing # pointB.easing \/ pointA.spline # pointB.spline
            \/ pointB.spline # pointC.spline \/ pointB.easing # pointC.easing
    THEN [ret |-> "undefined", dummy |-> dummy]
    ELSE slopeReturn(ComparePointsSlope(pointA, pointB, pointC, dummy, timeDifferenceThreshold,
                                        differenceThreshold, yInterceptDifferenceThreshold))

---------------------------------------------------------------------------
(* optimizePoints *)

\* pointPassed of processPoints from what the three predicates returned
\* ("inactive" for a predicate that is switched off and so not called); a
\* throw of the similar-points predicate comes before the slope predicate runs
pointPassedOf(dup, sim, slope, dummy) ==
    IF sim = "throw"
    THEN [thrown |-> TRUE, pointPassed |-> FALSE, dummy |-> dummy]
    ELSE [thrown |-> slope.ret = "throw",
          pointPassed |-> ~(dup = "undefined" \/ sim = "undefined" \/ slope.ret = "undefined"),
          dummy |-> slope.dummy]

\* processPoints of optimizePoints: no predicate short-circuits another
processPoints(pointA, pointB, pointC, s, dummy) ==
    pointPassedOf(
        IF s.optimizeDuplicates.active
        THEN optimizeDuplicates(pointA, pointB, pointC)
        ELSE "inactive",
        IF s.optimizeSimilarPoints.active
        THEN optimizeSimilarPoints(pointA, pointB, pointC,
                 s.optimizeSimilarPoints.differenceThreshold,
                 s.optimizeSimilarPoints.timeDifferenceThreshold)
        ELSE "inactive",
        IF s.optimizeSimilarPointsSlope.active
        THEN optimizeSimilarPointsSlope(pointA, pointB, pointC, dummy,
                 s.optimizeSimilarPoints.differenceThreshold,
                 s.optimizeSimilarPoints.timeDifferenceThreshold,
                 s.optimizeSimilarPointsSlope.yInterceptDifferenceThreshold)
        ELSE [ret |-> "inactive", dummy |-> dummy],
        dummy)

\* a sort that puts a keyframe before the earlier keyframes of the same time
insertAt(front, last, n) == SubSeq(front, 1, n) \o <<last>> \o SubSeq(front, n + 1, Len(front))

insertBeforeEqual(front, last) ==
    insertAt(front, last, Cardinality({k \in 1..Len(front) : front[k].time < last.time}))

RECURSIVE SortByTimeUnstable(_)
SortByTimeUnstable(s) ==
    IF s = <<>> THEN <<>>
    ELSE insertBeforeEqual(SortByTimeUnstable(SubSeq(s, 1, Len(s) - 1)), s[Len(s)])

\* the place of s[j] once s is sorted: behind the earlier keyframes and
\* behind the keyframes of the same time that came before it
placeOf(s, j) ==
    Cardinality({l \in 1..Len(s) :
        s[l].time < s[j].time \/ (s[l].time = s[j].time /\ l <= j)})

\* points.sort((a, b) => a.time - b.time): Array.prototype.sort is stable
SortByTime(s) == [k \in 1..Len(s) |-> s[CHOOSE j \in 1..Len(s) : placeOf(s, j) = k]]

\* a removal that shifts the tail down and forgets to shorten the array
spliceNoShrink(s, k) == SubSeq(s, 1, k) \o SubSeq(s, k + 2, Len(s)) \o <<s[Len(s)]>>

\* points.splice(i, 1), i 0-based
splice(s, k) == SubSeq(s, 1, k) \o SubSeq(s, k + 2, Len(s))

\* a scan that runs up to the last index
inScanToEnd(k, s) == k < Len(s)

\* the inner loop's condition, i < points.length - 1
inScan(k, s) == k < Len(s) - 1

\* the call with the sort moved before the check of settings.optimize
EnterSortFirst ==
    /\ pc = "call"
    /\ points' = SortByTime(points)
    /\ IF settings.optimize = FALSE
       THEN pc' = "done" /\ result' = "points"
       ELSE IF Len(points) < 2
       THEN pc' = "done" /\ result' = "undefined"
       ELSE pc' = "pass" /\ result' = result
    /\ pass' = 0
    /\ UNCHANGED <<input, settings, passes, i, dummyArrays, second>>
    /\ UNCHANGED remapVars
    /\ UNCHANGED diffVars

\* lines 240-245: the disabled and the not-enough-points returns
Enter ==
    /\ pc = "call"
    /\ IF settings.optimize = FALSE
       THEN /\ pc' = "done"
            /\ result' = "points"
            /\ UNCHANGED points
       ELSE /\ points' = SortByTime(points)
            /\ IF Len(points) < 2
               THEN pc' = "done" /\ result' = "undefined"
               ELSE pc' = "pass" /\ result' = result
    /\ pass' = 0
    /\ UNCHANGED <<input, settings, passes, i, dummyArrays, second>>
    /\ UNCHANGED remapVars
    /\ UNCHANGED diffVars

\* line 256 once processPoints returned r (or threw)
pairOutcome(r) ==
    /\ pc' = IF r.thrown THEN "error" ELSE "scan"
    /\ points' = IF ~r.thrown /\ ~r.pointPassed THEN splice(points, 1) ELSE points
    /\ dummyArrays' = r.dummy

\* line 256: a pass begins with the 2-keyframe case
BeginPass ==
    /\ pc = "pass"
    /\ pass < passes
    /\ IF Len(points) = 2
       THEN pairOutcome(processPoints(points[1], points[2], undefined, settings, dummyArrays))
       ELSE /\ pc' = "scan"
            /\ UNCHANGED <<points, dummyArrays>>
    /\ i' = 1
    /\ UNCHANGED <<input, settings, passes, pass, result, second>>
    /\ UNCHANGED remapVars
    /\ UNCHANGED diffVars

\* a scan that forgets the i-- after a removal
scanOutcomeAdvance(r) ==
    /\ pc' = IF r.thrown THEN "error" ELSE "scan"
    /\ dummyArrays' = r.dummy
    /\ IF ~r.thrown /\ ~r.pointPassed
       THEN points' = splice(points, i) /\ i' = i + 1
       ELSE points' = points /\ i' = IF r.thrown THEN i ELSE i + 1

\* a scan that steps back without removing the keyframe
scanOutcomeStay(r) ==
    /\ pc' = IF r.thrown THEN "error" ELSE "scan"
    /\ dummyArrays' = r.dummy
    /\ IF ~r.thrown /\ ~r.pointPassed
       THEN points' = points /\ i' = i
       ELSE points' = points /\ i' = IF r.thrown THEN i ELSE i + 1

\* lines 263-266 once processPoints returned r (or threw)
scanOutcome(r) ==
    /\ pc' = IF r.thrown THEN "error" ELSE "scan"
    /\ dummyArrays' = r.dummy
    /\ IF ~r.thrown /\ ~r.pointPassed
       THEN points' = splice(points, i) /\ i' = i
       ELSE points' = points /\ i' = IF r.thrown THEN i ELSE i + 1

\* lines 258-267: one iteration of the scan
ScanStep ==
    /\ pc = "scan"
    /\ inScan(i, points)
    /\ scanOutcome(processPoints(points[i], points[i + 1],
                                 IF i + 2 <= Len(points) THEN points[i + 2] ELSE undefined,
                                 settings, dummyArrays))
    /\ UNCHANGED <<input, settings, passes, pass, result, second>>
    /\ UNCHANGED remapVars
    /\ UNCHANGED diffVars

\* the scan's exit and pass++
EndPass ==
    /\ pc = "scan"
    /\ ~inScan(i, points)
    /\ pc' = "pass"
    /\ pass' = pass + 1
    /\ UNCHANGED <<points, input, settings, passes, i, result, dummyArrays, second>>
    /\ UNCHANGED remapVars
    /\ UNCHANGED diffVars

\* line 270
Return ==
    /\ pc = "pass"
    /\ pass >= passes
    /\ pc' = "done"
    /\ result' = "points"
    /\ UNCHANGED <<points, input, settings, passes, pass, i, dummyArrays, second>>
    /\ UNCHANGED remapVars
    /\ UNCHANGED diffVars

---------------------------------------------------------------------------
(* Inputs *)

DefaultEasing == {"easeLinear"}
DefaultSpline == {"splineLinear"}

\* keyframes without their identity; each family varies one thing
CoreShapes == [time : Times, values : {<<0>>, <<1>>}, easing : DefaultEasing, spline : DefaultSpline]
EasingShapes == [time : Times, values : {<<0>>}, easing : Easings, spline : DefaultSpline]
SplineShapes == [time : {1, 2}, values : {<<0>>}, easing : DefaultEasing, spline : Splines]
ArityShapes == [time : Times, values : {<<0>>, <<0, 0>>}, easing : DefaultEasing, spline : DefaultSpline]
MixedShapes == [time : {1}, values : {<<0>>, <<0, 1>>}, easing : Easings, spline : DefaultSpline]
\* a keyframe held over a gap of time that exceeds a difference threshold
PauseShapes == [time : {0, 1, 3}, values : {<<0>>}, easing : DefaultEasing, spline : DefaultSpline]
Families == {CoreShapes, EasingShapes, SplineShapes, ArityShapes, MixedShapes, PauseShapes}

\* id is the keyframe's identity: its index in the array first passed in
WithIds(s) == [k \in 1..Len(s) |-> [id |-> k, time |-> s[k].time, values |-> s[k].values,
                                    easing |-> s[k].easing, spline |-> s[k].spline]]

Inputs == UNION {[1..n -> F] : n \in 0..MaxLen, F \in Families}

Enabled == [optimize : {TRUE},
            optimizeDuplicates : [active : BOOLEAN],
            optimizeSimilarPoints : [active : BOOLEAN, differenceThreshold : DiffThresholds,
                                     timeDifferenceThreshold : TimeThresholds],
            optimizeSimilarPointsSlope : [active : BOOLEAN, differenceThreshold : {1},
                                          timeDifferenceThreshold : {0},
                                          yInterceptDifferenceThreshold : {1}]]

Disabled == {[e EXCEPT !.optimize = FALSE] : e \in
               {d \in Enabled : /\ d.optimizeSimilarPoints.differenceThreshold = 1
                                /\ d.optimizeSimilarPoints.timeDifferenceThreshold = 0}}

SettingsSet == Enabled \cup Disabled

\* no custom event is loaded while the optimizer or the remapper is studied
NoDifficulty == customEvents = <<>> /\ customEvents0 = <<>>

\* no light remapper is built while the optimizer is studied
NoRemapper ==
    /\ events = <<>> /\ heap = <<>> /\ conditions = <<>> /\ processes = <<>>
    /\ lightOverrider = [made |-> FALSE, shared |-> FALSE, conditions |-> <<>>]
    /\ rpc = "idle" /\ cursor = 0 /\ runner = "this" /\ calls = <<>>
    /\ testEvent = <<>> /\ events0 = <<>> /\ heap0 = <<>> /\ evaluated = <<>>

Init ==
    /\ NoRemapper
    /\ NoDifficulty
    /\ \E kfs \in Inputs : points = WithIds(kfs)
    /\ input = points
    /\ settings \in SettingsSet
    /\ passes \in 0..MaxPasses
    /\ pc = "call"
    /\ pass = 0
    /\ i = 0
    /\ result = "none"
    /\ dummyArrays = <<<<>>, <<>>, <<>>, <<>>>>
    /\ second = FALSE

Next == Enter \/ BeginPass \/ ScanStep \/ EndPass \/ Return

Spec == Init /\ [][Next]_vars

\* the caller passes the returned array to optimizePoints again, with the
\* same settings and passes; the scratch arrays are module state and stay
CallAgain ==
    /\ pc = "done"
    /\ result = "points"
    /\ ~second
    /\ pc' = "call"
    /\ input' = points
    /\ result' = "none"
    /\ second' = TRUE
    /\ pass' = 0
    /\ i' = 0
    /\ UNCHANGED <<points, settings, passes, dummyArrays>>
    /\ UNCHANGED remapVars
    /\ UNCHANGED diffVars

NextTwice == Next \/ CallAgain

SpecTwice == Init /\ [][NextTwice]_vars

---------------------------------------------------------------------------
(* What the claims speak of *)

Range(s) == {s[k] : k \in 1..Len(s)}

RECURSIVE IsSubseq(_, _)
IsSubseq(a, b) ==
    IF a = <<>> THEN TRUE
    ELSE IF b = <<>> THEN FALSE
    ELSE IF a[1] = b[1] THEN IsSubseq(Tail(a), Tail(b))
    ELSE IsSubseq(a, Tail(b))

\* ascending by time, keyframes of one time in the order of the input
InStableTimeOrder(s) ==
    \A j, k \in 1..Len(s) :
        j < k => \/ s[j].time < s[k].time
                 \/ (s[j].time = s[k].time /\ s[j].id < s[k].id)

TimeSorted(s) == \A k \in 1..(Len(s) - 1) : s[k].time <= s[k + 1].time

SameTags(a, b) == a.easing = b.easing /\ a.spline = b.spline

\* the pair or triple the next step hands to processPoints
AtPair == pc = "pass" /\ pass < passes /\ Len(points) = 2
AtTriple == pc = "scan" /\ inScan(i, points) /\ i >= 1 /\ i + 2 <= Len(points)
pointA == IF AtPair THEN points[1] ELSE points[i]
pointB == IF AtPair THEN points[2] ELSE points[i + 1]
pointC == IF AtPair THEN undefined ELSE points[i + 2]

DuplicatesFlags ==
    /\ settings.optimizeDuplicates.active
    /\ optimizeDuplicates(pointA, pointB, pointC) = "point"
SimilarPointsFlags ==
    /\ settings.optimizeSimilarPoints.active
    /\ optimizeSimilarPoints(pointA, pointB, pointC,
           settings.optimizeSimilarPoints.differenceThreshold,
           settings.optimizeSimilarPoints.timeDifferenceThreshold) = "point"
SlopeFlags ==
    /\ settings.optimizeSimilarPointsSlope.active
    /\ optimizeSimilarPointsSlope(pointA, pointB, pointC, dummyArrays,
           settings.optimizeSimilarPoints.differenceThreshold,
           settings.optimizeSimilarPoints.timeDifferenceThreshold,
           settings.optimizeSimilarPointsSlope.yInterceptDifferenceThreshold).ret = "point"

EveryActiveFamilyFlags ==
    /\ settings.optimizeDuplicates.active => DuplicatesFlags
    /\ settings.optimizeSimilarPoints.active => SimilarPointsFlags
    /\ settings.optimizeSimilarPointsSlope.active => SlopeFlags

SomeFamilyActive ==
    \/ settings.optimizeDuplicates.active
    \/ settings.optimizeSimilarPoints.active
    \/ settings.optimizeSimilarPointsSlope.active

\* the predicates that read the values of pointA and pointB: duplicates always,
\* similar points once the tags agree
ComparesValues ==
    \/ settings.optimizeDuplicates.active
    \/ /\ settings.optimizeSimilarPoints.active
       /\ SameTags(pointA, pointB)
       /\ (AtTriple => SameTags(pointB, pointC))

OnlyDuplicates ==
    /\ settings.optimize
    /\ settings.optimizeDuplicates.active
    /\ ~settings.optimizeSimilarPoints.active
    /\ ~settings.optimizeSimilarPointsSlope.active

---------------------------------------------------------------------------
(* Claims *)

\* processPoints as written: pointPassed is TRUE when every active family
\* returns a keyframe, and optimizePoints splices on !processPoints(...), so
\* the interior keyframe goes exactly when some active family does NOT flag it.
RemovedIffSomeActiveFamilyDoesNotFlag ==
    [][((AtPair \/ AtTriple) /\ pc' # "error")
        => ((Len(points') < Len(points)) <=> ~EveryActiveFamilyFlags)]_vars

\* C1: in a scan over 3 or more keyframes the interior keyframe points[i] is
\* removed exactly when every active predicate family flags it as removable
\* against points[i-1] and points[i+1].
C1_RemovedIffEveryActiveFamilyFlags ==
    [][(AtTriple /\ SomeFamilyActive /\ pc' # "error")
        => ((Len(points') < Len(points)) <=> EveryActiveFamilyFlags)]_vars

\* C2: with only optimizeDuplicates active, three keyframes of identical
\* values at times 0, 0.5 and 1 are reduced to the first and the last.
C2_DuplicateScenario ==
    (/\ pc = "done" /\ ~second
     /\ OnlyDuplicates /\ passes = 1
     /\ Len(input) = 3
     /\ <<input[1].time, input[2].time, input[3].time>> = <<0, 1, 2>>
     /\ input[1].values = input[2].values /\ input[2].values = input[3].values)
    => (result = "points" /\ points = <<input[1], input[3]>>)

\* C3: a pass that starts with exactly 2 keyframes removes the second one if
\* and only if an active duplicates or similar-points predicate reports the
\* pair redundant; the slope predicate contributes nothing.
C3_PairRemovedIffSomeActiveFamilyFlags ==
    [][(AtPair /\ pc' # "error")
        => ((Len(points') = 1) <=> (DuplicatesFlags \/ SimilarPointsFlags))]_vars

\* C4 as claimed: the result is never longer than the input and is a
\* subsequence of the input, in the input's order.
C4_SubsequenceOfInput ==
    pc = "done" => (Len(points) <= Len(input) /\ IsSubseq(points, input))

\* C4: the result is never longer than the input; its keyframes are input
\* keyframes in the order of the stable sort by time that an enabled call
\* performs (ascending time, equal times in input order), and in the input's
\* own order when optimize is false.
C4_StableSubsequenceOfSortedInput ==
    pc \in {"done", "error"} =>
        /\ Len(points) <= Len(input)
        /\ Range(points) \subseteq Range(input)
        /\ IF settings.optimize
           THEN InStableTimeOrder(points)
           ELSE IsSubseq(points, input)

C4_Witness ==
    /\ pc = "done" /\ result = "points"
    /\ ~TimeSorted(input)
    /\ \E j, k \in 1..Len(input) : j < k /\ input[j].time = input[k].time
    /\ Len(points) < Len(input)
    /\ Len(points) >= 2

\* C5: every keyframe of the array is one of the input keyframes, present at
\* most once, with its time, values, easing and spline as they were.
C5_OnlyInputKeyframesUnchanged ==
    /\ \A k \in 1..Len(points) : \E j \in 1..Len(input) : points[k] = input[j]
    /\ \A j, k \in 1..Len(points) : j # k => points[j].id # points[k].id

C5_Witness ==
    /\ pc = "done" /\ result = "points"
    /\ settings.optimizeSimilarPointsSlope.active
    /\ dummyArrays[1] # <<>>
    /\ Len(points) < Len(input)
    /\ Len(points) >= 2

\* C6: with settings.optimize false the call returns the array it was given,
\* the same keyframes in the same order, nothing sorted and nothing removed.
C6_DisabledReturnsInput ==
    (pc = "done" /\ settings.optimize = FALSE) => (result = "points" /\ points = input)

C6_Witness ==
    /\ pc = "done"
    /\ settings.optimize = FALSE
    /\ passes >= 1
    /\ Len(input) = MaxLen
    /\ ~TimeSorted(input)

\* C7: with fewer than 2 keyframes and optimization enabled the call returns
\* the unmodified input array, never an absent result.
C7_FewPointsReturnsInput ==
    (pc = "done" /\ settings.optimize /\ Len(input) < 2)
        => (result = "points" /\ points = input)

\* C8: a second optimizePoints call with the same settings and passes = 1 on
\* the output of a first one removes no further keyframe (slope predicate
\* inactive, so its pause exception plays no part).
C8_SecondRunRemovesNothing ==
    (/\ second /\ pc \in {"done", "error"}
     /\ passes = 1
     /\ ~settings.optimizeSimilarPointsSlope.active)
    => Len(points) = Len(input)

\* C9 as claimed: for an input of at least 3 keyframes the first and the last
\* keyframe of the time-sorted sequence are both in the result, for any
\* number of passes.
C9_FirstAndLastSurvive ==
    (pc = "done" /\ result = "points" /\ settings.optimize /\ Len(input) >= 3)
    => /\ points[1] = SortByTime(input)[1]
       /\ points[Len(points)] = SortByTime(input)[Len(input)]

\* C9: for an input of at least 3 keyframes the first keyframe of the
\* time-sorted sequence is in the result for any settings and passes, and the
\* last one too when passes <= 1; from the second pass on, a pass that starts
\* with exactly 2 keyframes left may remove the last one.
C9_FirstSurvivesLastInOnePass ==
    (pc = "done" /\ result = "points" /\ settings.optimize /\ Len(input) >= 3)
    => /\ points[1] = SortByTime(input)[1]
       /\ passes <= 1 => points[Len(points)] = SortByTime(input)[Len(input)]

C9_Witness ==
    /\ pc = "done" /\ result = "points" /\ settings.optimize
    /\ Len(input) >= 3
    /\ passes = 1
    /\ Len(points) = 2
    /\ points = <<SortByTime(input)[1], SortByTime(input)[Len(input)]>>

\* C10 as claimed: whenever an active predicate compares two keyframes whose
\* value vectors have different lengths, the call fails with an error.
C10_LengthMismatchThrows ==
    [][((AtPair \/ AtTriple)
        /\ ComparesValues
        /\ Len(pointA.values) # Len(pointB.values))
       => pc' = "error"]_vars

\* C10: the call fails with an error when the similar-points predicate is
\* active and is handed keyframes A and B of different value-vector lengths
\* whose easing and spline tags agree (and agree with C's in a triple).  The
\* duplicates predicate answers a mismatch with "not identical" and differing
\* tags end the similar-points predicate before it compares.
C10_SimilarPointsMismatchThrows ==
    [][((AtPair \/ AtTriple)
        /\ settings.optimizeSimilarPoints.active
        /\ SameTags(pointA, pointB)
        /\ (AtTriple => SameTags(pointB, pointC))
        /\ Len(pointA.values) # Len(pointB.values))
       => (pc' = "error" /\ points' = points)]_vars

C10_Witness ==
    /\ pc = "error"
    /\ settings.optimizeSimilarPoints.active
    /\ ~settings.optimizeSimilarPointsSlope.active
    /\ Len(points) = 3


---------------------------------------------------------------------------
(***************************************************************************)
(* The light remapper (src/src/light_remapper.ts).                         *)
(*                                                                         *)
(* A light ID is a JavaScript number, here an exact rational <<n, d>>: the *)
(* solver divides.  An event is [type, color, lightID].  A lightID field   *)
(* is absent, a number, or a reference to an array of the heap; arrays are *)
(* objects with identity, because the solvers write into the array they    *)
(* are handed and setIDs and initIDs hand the caller's array to every      *)
(* event.  A color is absent or an array of 3 or 4 integers.               *)
(***************************************************************************)

RAdd(a, b) == IF IsNaN(a) \/ IsNaN(b) THEN NaN
              ELSE Norm(a[1] * b[2] + b[1] * a[2], a[2] * b[2])
\* a > b and a <= b; every comparison with NaN is false
RGt(a, b) == ~IsNaN(a) /\ ~IsNaN(b) /\ a[1] * b[2] > b[1] * a[2]
RLeq(a, b) == ~IsNaN(a) /\ ~IsNaN(b) /\ a[1] * b[2] <= b[1] * a[2]
IsInteger(q) == q[2] = 1

Absent == [kind |-> "undefined", num |-> Num(0), ref |-> 0]
Number(q) == [kind |-> "number", num |-> q, ref |-> 0]
Array(r) == [kind |-> "object", num |-> Num(0), ref |-> r]
NoColor == [present |-> FALSE, c |-> <<>>]
Color(c) == [present |-> TRUE, c |-> c]

\* if (x.lightID): undefined, 0 and NaN are falsy, every array is truthy
Truthy(lightID) ==
    \/ lightID.kind = "object"
    \/ lightID.kind = "number" /\ ~IsNaN(lightID.num) /\ lightID.num[1] # 0

\* the outcome of a process: the event and the heap after it
out(x, h) == [x |-> x, heap |-> h]

---------------------------------------------------------------------------
(* solveLightMap and applyLightMap.  A table is a sequence of              *)
(* <<start, step>> pairs of numbers.                                       *)

\* an inputMapped that forgets the step of the change before
solveMappedFlat(changes, k, inputMapped) ==
    IF k = 1
    THEN RAdd(inputMapped, changes[1][1])
    ELSE RAdd(inputMapped, RSub(changes[k][1], changes[k - 1][1]))

\* lines 269-275: inputMapped after the change at index k was read
solveMapped(changes, k, inputMapped) ==
    IF k = 1
    THEN RAdd(inputMapped, changes[1][1])
    ELSE RAdd(inputMapped, RMul(changes[k - 1][2], RSub(changes[k][1], changes[k - 1][1])))

RECURSIVE solveLoop(_, _, _, _)
\* lines 277-287: the returns of one iteration, or the next iteration
solveBranch(output, changes, k, lastInputMapped, inputMapped) ==
    IF RGt(inputMapped, output)
    THEN IF k = 1
         THEN output
         ELSE RAdd(changes[k - 1][1], RDiv(RSub(output, lastInputMapped), changes[k - 1][2]))
    ELSE IF Len(changes) - k < 1
    THEN RAdd(changes[k][1], RDiv(RSub(output, inputMapped), changes[k][2]))
    ELSE solveLoop(output, changes, k + 1, inputMapped)

\* lines 266-288: the iteration that reads changes[k]
solveLoop(output, changes, k, inputMapped) ==
    solveBranch(output, changes, k, inputMapped, solveMapped(changes, k, inputMapped))

\* lines 257-289
solve(output, changes) ==
    IF Len(changes) < 1 THEN output ELSE solveLoop(output, changes, 1, Num(0))

\* lines 291-295: the new contents of ids, written in place
solveLightMap(map, ids) == [k \in 1..Len(ids) |-> solve(ids[k], map)]

RECURSIVE applyLoop(_, _, _, _)
\* an extrapolation past the last change that forgets its step
applyFilledFlat(value, changes, k, output) ==
    IF Len(changes) - k < 1
    THEN RAdd(output, RSub(value, changes[k][1]))
    ELSE applyLoop(value, changes, k + 1, output)

\* lines 332-337: the last change extrapolates, else the next iteration
applyFilled(value, changes, k, output) ==
    IF Len(changes) - k < 1
    THEN RAdd(output, RMul(changes[k][2], RSub(value, changes[k][1])))
    ELSE applyLoop(value, changes, k + 1, output)

\* lines 314-330: the iteration that reads changes[k]
applyLoop(value, changes, k, output) ==
    IF RLeq(changes[k][1], value)
    THEN applyFilled(value, changes, k,
             IF k = 1
             THEN RAdd(output, changes[1][1])
             ELSE RAdd(output, RMul(changes[k - 1][2], RSub(changes[k][1], changes[k - 1][1]))))
    ELSE IF k = 1
    THEN value
    ELSE RAdd(output, RMul(changes[k - 1][2], RSub(value, changes[k - 1][1])))

\* lines 304-339
apply(value, changes) ==
    IF Len(changes) < 1 THEN value ELSE applyLoop(value, changes, 1, Num(0))

\* lines 299-344: map is [offset, ...changes]; the copy is spliced, so the
\* caller's table stays; the result is the new contents of ids
applyLightMap(map, ids) == [k \in 1..Len(ids) |-> RAdd(apply(ids[k], Tail(map)), map[1])]

\* lines 346-357
isInID(lightID, h, start, end) ==
    IF lightID.kind = "undefined" THEN FALSE
    ELSE IF lightID.kind = "object"
    THEN \E k \in 1..Len(h[lightID.ref]) :
             RGeq(h[lightID.ref][k], start) /\ RLeq(h[lightID.ref][k], end)
    ELSE RGeq(lightID.num, start) /\ RLeq(lightID.num, end)

\* general.ts arrHas: whether the array holds the value
arrHas(arr, value) == \E k \in 1..Len(arr) : arr[k] = value

---------------------------------------------------------------------------
(* complexifyLightIDs, in two halves around its callback                   *)

\* line 96: the array the callback receives
idsOf(lightID, h) == IF lightID.kind = "number" THEN <<lightID.num>> ELSE h[lightID.ref]

\* a return that hands back the array whatever its length
complexifyReturnArray(ids, ref, h) ==
    IF ref = 0 THEN [lightID |-> Array(Len(h) + 1), heap |-> Append(h, ids)]
    ELSE [lightID |-> Array(ref), heap |-> h]

\* line 98 for the array the callback returned: ids are its contents, ref
\* its identity, 0 when the array is not one of the heap yet
complexifyReturn(ids, ref, h) ==
    IF Len(ids) = 1 THEN [lightID |-> Number(ids[1]), heap |-> h]
    ELSE IF ref = 0 THEN [lightID |-> Array(Len(h) + 1), heap |-> Append(h, ids)]
    ELSE [lightID |-> Array(ref), heap |-> h]

\* a callback that wrote ids into the array it was handed and returned it:
\* the event's own array when lightID is one, else the temporary [lightID]
inPlace(ids, lightID, h) ==
    IF lightID.kind = "number"
    THEN complexifyReturn(ids, 0, h)
    ELSE complexifyReturn(ids, lightID.ref, [h EXCEPT ![lightID.ref] = ids])

\* x.lightID = the value complexifyLightIDs returned
withLightID(x, r) == out([x EXCEPT !.lightID = r.lightID], r.heap)

---------------------------------------------------------------------------
(* Conditions.  A registered condition is a record of its kind and the     *)
(* arguments its closure holds.  range holds <<n>> for a number n and      *)
(* <<min, max>> for a pair.                                                *)

\* line 106
typeCondition(type, x) == x.type = type

\* a range condition that reads the pair's first number for both ends
rangeConditionMin(range, x, h) == isInID(x.lightID, h, Num(range[1]), Num(range[1]))

\* lines 113-116
rangeCondition(range, x, h) ==
    IF Len(range) = 1
    THEN isInID(x.lightID, h, Num(range[1]), Num(range[1]))
    ELSE isInID(x.lightID, h, Num(range[1]), Num(range[2]))

\* lines 123-136
IDsCondition(given, lightIDs, x, h) ==
    IF Truthy(x.lightID)
    THEN IF given
         THEN \E k \in 1..Len(idsOf(x.lightID, h)) : arrHas(lightIDs, idsOf(x.lightID, h)[k])
         ELSE TRUE
    ELSE FALSE

conditionHolds(c, x, h) ==
    CASE c.kind = "type" -> typeCondition(c.type, x)
      [] c.kind = "range" -> rangeCondition(c.range, x, h)
      [] c.kind = "IDs" -> IDsCondition(c.given, c.lightIDs, x, h)

\* a forEach that lets one passing condition decide
passedAny(cs, k, x, h, passed) ==
    Len(cs) = 0 \/ \E j \in 1..Len(cs) : conditionHolds(cs[j], x, h)

RECURSIVE passedAfter(_, _, _, _, _)
\* line 84: the forEach over the conditions, from index k on
passedAfter(cs, k, x, h, passed) ==
    IF k > Len(cs) THEN passed
    ELSE passedAfter(cs, k + 1, x, h, IF ~conditionHolds(cs[k], x, h) THEN FALSE ELSE passed)

RECURSIVE evaluatedAfter(_, _, _)
\* line 84: the conditions that forEach calls from index k on, after those
\* already called; forEach visits every element, whatever passed is
evaluatedAfter(cs, k, called) ==
    IF k > Len(cs) THEN called ELSE evaluatedAfter(cs, k + 1, Append(called, k))

---------------------------------------------------------------------------
(* Processes.  A registered process is a record of its kind and the        *)
(* arguments its closure holds; applied to an event x and a heap h it      *)
(* gives the event and the heap after it.                                  *)

\* line 45
setTypeProcess(type, x, h) == out([x EXCEPT !.type = type], h)

\* lines 55-58 on a color array
multiplied(c, rgb, alpha) ==
    [k \in 1..Len(c) |-> IF k <= 3 THEN c[k] * rgb
                         ELSE IF c[k] # 0 THEN c[k] * alpha ELSE c[k]]

\* lines 53-60
multiplyColorProcess(rgb, alpha, x, h) ==
    IF x.color.present
    THEN out([x EXCEPT !.color = Color(multiplied(x.color.c, rgb, alpha))], h)
    ELSE out(x, h)

\* lines 145-147
setIDsProcess(lightID, x, h) == out([x EXCEPT !.lightID = lightID], h)

\* lines 167-172: ids2.concat(ids1) is a new array
appendIDsConcat(ids2, ids1, x, h) == withLightID(x, complexifyReturn(ids2 \o ids1, 0, h))

\* an appendIDs that initializes whatever its flag says
appendIDsAlways(lightID, initialize, x, h) ==
    IF ~Truthy(x.lightID)
    THEN appendIDsConcat(<<>>, idsOf(lightID, h), x, h)
    ELSE appendIDsConcat(idsOf(x.lightID, h), idsOf(lightID, h), x, h)

\* lines 161-173
appendIDsProcess(lightID, initialize, x, h) ==
    IF ~Truthy(x.lightID)
    THEN IF initialize
         THEN appendIDsConcat(<<>>, idsOf(lightID, h), x, h)
         ELSE out(x, h)
    ELSE appendIDsConcat(idsOf(x.lightID, h), idsOf(lightID, h), x, h)

\* line 185: the integers from low to high
spreadIDs(low, high) ==
    IF RGt(low, high) \/ IsNaN(low) \/ IsNaN(high) THEN <<>>
    ELSE [k \in 1..((high[1] - low[1]) + 1) |-> Num(low[1] + k - 1)]

\* lines 181-189; the spread array is new at every event
initIDsProcess(lightID, spread, x, h) ==
    IF Truthy(x.lightID) THEN out(x, h)
    ELSE IF spread /\ lightID.kind = "object" /\ Len(idsOf(lightID, h)) = 2
    THEN out([x EXCEPT !.lightID = Array(Len(h) + 1)],
             Append(h, spreadIDs(h[lightID.ref][1], h[lightID.ref][2])))
    ELSE out([x EXCEPT !.lightID = lightID], h)

\* a table of integers as the numbers the solvers read
Changes(map) == [k \in 1..Len(map) |-> <<Num(map[k][1]), Num(map[k][2])>>]

\* lines 197-201
normalizeLinearProcess(step, start, x, h) ==
    IF Truthy(x.lightID)
    THEN withLightID(x, inPlace(solveLightMap(Changes(<<<<start, step>>>>), idsOf(x.lightID, h)),
                                x.lightID, h))
    ELSE out(x, h)

\* lines 216-220
normalizeWithChangesProcess(map, x, h) ==
    IF Truthy(x.lightID)
    THEN withLightID(x, inPlace(solveLightMap(Changes(map), idsOf(x.lightID, h)), x.lightID, h))
    ELSE out(x, h)

\* if (step): an absent step and the step 0 are falsy
stepTruthy(stepGiven, step) == stepGiven /\ step # 0

\* lines 231-234: the callback of ids.map
addToEndOf(id, offset, stepGiven, step) ==
    IF stepTruthy(stepGiven, step)
    THEN RAdd(RAdd(RMul(RSub(id, Num(1)), Num(step)), Num(1)), Num(offset))
    ELSE RAdd(id, Num(offset))

\* lines 228-237; ids.map returns a new array
addToEndProcess(offset, stepGiven, step, x, h) ==
    IF Truthy(x.lightID)
    THEN withLightID(x, complexifyReturn(
             [k \in 1..Len(idsOf(x.lightID, h)) |->
                 addToEndOf(idsOf(x.lightID, h)[k], offset, stepGiven, step)], 0, h))
    ELSE out(x, h)

\* lines 245-252
remapEndProcess(map, offset, x, h) ==
    IF Truthy(x.lightID)
    THEN withLightID(x, inPlace(applyLightMap(<<Num(offset)>> \o Changes(map), idsOf(x.lightID, h)),
                                x.lightID, h))
    ELSE out(x, h)

applyProcess(p, x, h) ==
    CASE p.kind = "setType" -> setTypeProcess(p.type, x, h)
      [] p.kind = "multiplyColor" -> multiplyColorProcess(p.rgb, p.alpha, x, h)
      [] p.kind = "setIDs" -> setIDsProcess(p.lightID, x, h)
      [] p.kind = "appendIDs" -> appendIDsProcess(p.lightID, p.initialize, x, h)
      [] p.kind = "initIDs" -> initIDsProcess(p.lightID, p.spread, x, h)
      [] p.kind = "normalizeLinear" -> normalizeLinearProcess(p.step, p.start, x, h)
      [] p.kind = "normalizeWithChanges" -> normalizeWithChangesProcess(p.map, x, h)
      [] p.kind = "addToEnd" -> addToEndProcess(p.offset, p.stepGiven, p.step, x, h)
      [] p.kind = "remapEnd" -> remapEndProcess(p.map, p.offset, x, h)

RECURSIVE runProcesses(_, _, _)
\* line 87: the forEach over the processes, from index k on
runProcessesFrom(ps, k, r) == runProcesses(ps, k + 1, applyProcess(ps[k], r.x, r.heap))

runProcesses(ps, k, r) == IF k > Len(ps) THEN r ELSE runProcessesFrom(ps, k, r)

\* lines 83-88: the forEach callback on one event
processEvent(cs, ps, x, h) ==
    IF ~passedAfter(cs, 1, x, h, TRUE) THEN out(x, h) ELSE runProcesses(ps, 1, out(x, h))

---------------------------------------------------------------------------
(* The remapper's operations.  The script that uses the remapper registers *)
(* its conditions and processes first and then calls run (on the remapper  *)
(* or on the pipeline setIDs returned) and test, each at most once.        *)

MaxConditions == 2
MaxProcesses == 2

\* the conditions of the remapper whose processEvents is running
runnerConditions == IF runner = "this" THEN conditions ELSE lightOverrider.conditions

building == rpc = "idle" /\ calls = <<>>

\* lines 21, 30-33: the push reaches the overrider while it shares the array
returnAddCondition(c) ==
    /\ building
    /\ Len(conditions) < MaxConditions
    /\ conditions' = Append(conditions, c)
    /\ lightOverrider' = IF lightOverrider.made /\ lightOverrider.shared
                         THEN [lightOverrider EXCEPT !.conditions = Append(@, c)]
                         ELSE lightOverrider
    /\ UNCHANGED <<events, heap, processes, rpc, cursor, runner, calls, testEvent, events0,
                   heap0, evaluated>>
    /\ UNCHANGED vars
    /\ UNCHANGED diffVars

\* lines 28, 35-38, for a process whose arguments are numbers
returnAddProcess(p) ==
    /\ building
    /\ Len(processes) < MaxProcesses
    /\ processes' = Append(processes, p)
    /\ UNCHANGED <<events, heap, conditions, lightOverrider, rpc, cursor, runner, calls,
                   testEvent, events0, heap0, evaluated>>
    /\ UNCHANGED vars
    /\ UNCHANGED diffVars

\* the same for a process that is handed the caller's array ids
returnAddProcessWith(p, ids) ==
    /\ building
    /\ Len(processes) < MaxProcesses
    /\ processes' = Append(processes, [p EXCEPT !.lightID = Array(Len(heap) + 1)])
    /\ heap' = Append(heap, ids)
    /\ UNCHANGED <<events, conditions, lightOverrider, rpc, cursor, runner, calls,
                   testEvent, events0, heap0, evaluated>>
    /\ UNCHANGED vars
    /\ UNCHANGED diffVars

\* The arguments the script registers: type(1), range([1, 4]), IDs(),
\* setType(2), multiplyColor(2, 3), setIDs(7), setIDs([1, 3, 5]),
\* appendIDs(9, false | true), initIDs([1, 3, 5]), normalizeLinear(2, 1),
\* normalizeWithChanges([[1, 2], [3, 1]]), addToEnd(10), remapEnd([[1, 2]])
\* and test([1, 3, 5]).

\* line 106
type ==
    returnAddCondition([kind |-> "type", type |-> 1])

\* lines 113-116
range ==
    returnAddCondition([kind |-> "range", range |-> <<1, 4>>])

\* lines 123-136
IDs ==
    returnAddCondition([kind |-> "IDs", given |-> FALSE, lightIDs |-> <<>>])

\* line 45
setType ==
    returnAddProcess([kind |-> "setType", type |-> 2])

\* lines 53-60
multiplyColor ==
    returnAddProcess([kind |-> "multiplyColor", rgb |-> 2, alpha |-> 3])

\* a setIDs whose lightOverrider takes a copy of the conditions array
setIDsCopy ==
    /\ \/ /\ processes' = Append(processes, [kind |-> "setIDs", lightID |-> Number(Num(7))])
          /\ heap' = heap
       \/ /\ processes' = Append(processes, [kind |-> "setIDs", lightID |-> Array(Len(heap) + 1)])
          /\ heap' = Append(heap, Nums(<<1, 3, 5>>))
    /\ building
    /\ Len(processes) < MaxProcesses
    /\ lightOverrider' = [made |-> TRUE, shared |-> FALSE, conditions |-> conditions]
    /\ UNCHANGED <<events, conditions, rpc, cursor, runner, calls, testEvent, events0, heap0,
                   evaluated>>
    /\ UNCHANGED vars
    /\ UNCHANGED diffVars

\* lines 144-153: lightOverrider takes the two arrays themselves
setIDs ==
    /\ \/ /\ processes' = Append(processes, [kind |-> "setIDs", lightID |-> Number(Num(7))])
          /\ heap' = heap
       \/ /\ processes' = Append(processes, [kind |-> "setIDs", lightID |-> Array(Len(heap) + 1)])
          /\ heap' = Append(heap, Nums(<<1, 3, 5>>))
    /\ building
    /\ Len(processes) < MaxProcesses
    /\ lightOverrider' = [made |-> TRUE, shared |-> TRUE, conditions |-> conditions]
    /\ UNCHANGED <<events, conditions, rpc, cursor, runner, calls, testEvent, events0, heap0,
                   evaluated>>
    /\ UNCHANGED vars
    /\ UNCHANGED diffVars

\* lines 161-173
appendIDs ==
    \E initialize \in BOOLEAN :
        returnAddProcess([kind |-> "appendIDs", lightID |-> Number(Num(9)),
                          initialize |-> initialize])

\* lines 181-189
initIDs ==
    returnAddProcessWith([kind |-> "initIDs", lightID |-> Absent, spread |-> FALSE],
                         Nums(<<1, 3, 5>>))

\* lines 197-201
normalizeLinear ==
    returnAddProcess([kind |-> "normalizeLinear", step |-> 2, start |-> 1])

\* lines 216-220
normalizeWithChanges ==
    returnAddProcess([kind |-> "normalizeWithChanges", map |-> <<<<1, 2>>, <<3, 1>>>>])

\* lines 228-237
addToEnd ==
    returnAddProcess([kind |-> "addToEnd", offset |-> 10, stepGiven |-> FALSE, step |-> 0])

\* lines 245-252
remapEnd ==
    returnAddProcess([kind |-> "remapEnd", map |-> <<<<1, 2>>>>, offset |-> 0])

\* event.ts, new Event().abstract() with its lightID set (lines 69-70)
synthetic(lightID) == [type |-> 0, color |-> NoColor, lightID |-> lightID]

\* lines 66-73 once the one event was processed
tested(r) ==
    /\ testEvent' = Append(testEvent, r.x)
    /\ heap' = r.heap

\* lines 66-73: the caller's array ids becomes the event's lightID
test ==
    /\ rpc = "idle"
    /\ \A k \in 1..Len(calls) : calls[k] # "test"
    /\ tested(processEvent(<<>>, processes, synthetic(Array(Len(heap) + 1)),
                           Append(heap, Nums(<<1, 3, 5>>))))
    /\ conditions' = <<>>
    /\ lightOverrider' = [lightOverrider EXCEPT !.shared = FALSE]
    /\ calls' = Append(calls, "test")
    /\ evaluated' = evaluatedAfter(<<>>, 1, <<>>)
    /\ UNCHANGED <<events, processes, rpc, cursor, runner, events0, heap0>>
    /\ UNCHANGED vars
    /\ UNCHANGED diffVars

\* processEvents is entered with activeDiff.events
enter(who) ==
    /\ rpc = "idle"
    /\ \A k \in 1..Len(calls) : calls[k] # "run"
    /\ rpc' = IF Len(events) = 0 THEN "idle" ELSE "run"
    /\ cursor' = 1
    /\ runner' = who
    /\ calls' = Append(calls, "run")
    /\ UNCHANGED <<events, heap, conditions, processes, lightOverrider, testEvent, events0,
                   heap0, evaluated>>
    /\ UNCHANGED vars
    /\ UNCHANGED diffVars

\* line 79
run == enter("this")

\* line 79, called on the pipeline setIDs returned
runOverrider == lightOverrider.made /\ enter("lightOverrider")

\* lines 83-88 once the callback handled the event
handled(r) ==
    /\ events' = [events EXCEPT ![cursor] = r.x]
    /\ heap' = r.heap

\* lines 82-89: one iteration of events.forEach
forEachEvent ==
    /\ rpc = "run"
    /\ handled(processEvent(runnerConditions, processes, events[cursor], heap))
    /\ evaluated' = evaluatedAfter(runnerConditions, 1, <<>>)
    /\ cursor' = cursor + 1
    /\ rpc' = IF cursor = Len(events) THEN "idle" ELSE "run"
    /\ UNCHANGED <<conditions, processes, lightOverrider, runner, calls, testEvent, events0, heap0>>
    /\ UNCHANGED vars
    /\ UNCHANGED diffVars

---------------------------------------------------------------------------
(* Inputs of the remapper *)

\* an event to load: its lightID is absent ("undefined"), the number
\* ids[1] ("number") or the array ids ("object")
Shape(t, color, kind, ids) == [type |-> t, color |-> color, kind |-> kind, ids |-> ids]

\* the event of a shape and the heap with its array
loaded(shape, r) ==
    IF shape.kind = "object"
    THEN [events |-> Append(r.events, [type |-> shape.type, color |-> shape.color,
                                       lightID |-> Array(Len(r.heap) + 1)]),
          heap |-> Append(r.heap, Nums(shape.ids))]
    ELSE [events |-> Append(r.events, [type |-> shape.type, color |-> shape.color,
                                       lightID |-> IF shape.kind = "number"
                                                   THEN Number(Num(shape.ids[1]))
                                                   ELSE Absent]),
          heap |-> r.heap]

RECURSIVE load(_, _, _)
load(shapes, k, r) ==
    IF k > Len(shapes) THEN r ELSE load(shapes, k + 1, loaded(shapes[k], r))

Bare == Shape(1, NoColor, "undefined", <<>>)
Single == Shape(1, Color(<<1, 1, 1>>), "number", <<7>>)
Several == Shape(2, Color(<<1, 1, 1, 2>>), "object", <<1, 3, 5>>)

EventLists == {<<>>, <<Bare>>, <<Bare, Bare>>, <<Single, Several>>}

\* no keyframes are optimized while the remapper is studied
NoOptimizer ==
    /\ points = <<>> /\ input = <<>> /\ passes = 0 /\ pc = "done" /\ pass = 0 /\ i = 0
    /\ settings = CHOOSE s \in Disabled : TRUE
    /\ result = "none" /\ dummyArrays = <<<<>>, <<>>, <<>>, <<>>>> /\ second = FALSE

\* a remapper just constructed, of a script that registers nothing yet
constructed(shapes) ==
    /\ events = load(shapes, 1, [events |-> <<>>, heap |-> <<>>]).events
    /\ heap = load(shapes, 1, [events |-> <<>>, heap |-> <<>>]).heap
    /\ events0 = events
    /\ heap0 = heap
    /\ lightOverrider = [made |-> FALSE, shared |-> FALSE, conditions |-> <<>>]
    /\ rpc = "idle" /\ cursor = 0 /\ runner = "this" /\ calls = <<>> /\ testEvent = <<>>
    /\ evaluated = <<>>
    /\ NoDifficulty

InitRemap ==
    /\ NoOptimizer
    /\ \E shapes \in EventLists : constructed(shapes)
    /\ conditions = <<>>
    /\ processes = <<>>

NextRemap ==
    \/ type \/ range \/ IDs
    \/ setType \/ multiplyColor \/ setIDs \/ appendIDs \/ initIDs
    \/ normalizeLinear \/ normalizeWithChanges \/ addToEnd \/ remapEnd
    \/ test \/ run \/ runOverrider \/ forEachEvent

SpecRemap == InitRemap /\ [][NextRemap]_<<vars, remapVars>>

---------------------------------------------------------------------------
(* One event through one registered pipeline, over wider arguments: the    *)
(* script has registered the pipeline and calls run.                       *)

MaxID == 7
MaxIDs == 5

RECURSIVE Ascending(_)
\* the numbers of a set as an ascending array
Ascending(S) ==
    IF S = {} THEN <<>>
    ELSE Ascending(S \ {CHOOSE m \in S : \A n \in S : m >= n})
         \o <<CHOOSE m \in S : \A n \in S : m >= n>>

CalcArrays == {Ascending(S) : S \in {T \in SUBSET (0..MaxID) : Cardinality(T) <= MaxIDs}}

CalcShapes ==
    {Shape(1, NoColor, "undefined", <<>>)}
    \cup {Shape(1, NoColor, "number", <<n>>) : n \in 0..MaxID}
    \cup {Shape(1, NoColor, "object", a) : a \in CalcArrays \cup {<<3, 9>>, <<6, 5>>}}

Starts == 1..4
Steps == 1..3
Offsets == {0, 10}

\* tables with ascending starts
Tables ==
    {<<>>}
    \cup {<<<<a, s>>>> : a \in Starts, s \in Steps}
    \cup {m \in {<<<<a, s>>, <<b, t>>>> : a \in Starts, b \in Starts, s \in Steps, t \in Steps} :
             m[1][1] < m[2][1]}

NormalizeLinears == {[kind |-> "normalizeLinear", step |-> s, start |-> a] : s \in Steps, a \in 1..3}
NormalizeWithChanges == {[kind |-> "normalizeWithChanges", map |-> m] : m \in Tables}
\* an absent step is stepGiven = FALSE, with 0 in the step field
AddToEnds == {p \in [kind : {"addToEnd"}, offset : {10}, stepGiven : BOOLEAN, step : {0, 1, 2}] :
                  p.stepGiven \/ p.step = 0}
RemapEnds == {[kind |-> "remapEnd", map |-> m, offset |-> o] : m \in Tables, o \in Offsets}

\* appendIDs(9, false | true) and initIDs(4) besides
CalcPipelines ==
    {<<p>> : p \in NormalizeLinears \cup NormalizeWithChanges \cup AddToEnds \cup RemapEnds}
    \cup {<<[kind |-> "appendIDs", lightID |-> Number(Num(9)), initialize |-> b]>> : b \in BOOLEAN}
    \cup {<<[kind |-> "initIDs", lightID |-> Number(Num(4)), spread |-> FALSE]>>}
    \cup {<<[kind |-> "normalizeWithChanges", map |-> m],
            [kind |-> "remapEnd", map |-> m, offset |-> o]>> : m \in Tables, o \in Offsets}

Bounds == 0..5
CalcConditions ==
    {<<[kind |-> "range", range |-> <<n>>]>> : n \in Bounds}
    \cup {<<[kind |-> "range", range |-> <<a, b>>]>> : a \in Bounds, b \in Bounds}
    \cup {<<[kind |-> "IDs", given |-> Len(l) > 0, lightIDs |-> Nums(l)]>> :
             l \in {<<>>, <<0>>, <<3>>, <<3, 9>>}}

\* what the conditions let through shows in the type
Marker == <<[kind |-> "setType", type |-> 2]>>

InitCalc ==
    /\ NoOptimizer
    /\ \E shape \in CalcShapes : constructed(<<shape>>)
    /\ \/ conditions = <<>> /\ processes \in CalcPipelines
       \/ conditions \in CalcConditions /\ processes = Marker

NextCalc == run \/ forEachEvent

SpecCalc == InitCalc /\ [][NextCalc]_<<vars, remapVars>>

---------------------------------------------------------------------------
(* Properties of the light remapper *)

\* the numbers of a lightID field, none when it is absent
valuesOf(lightID, h) == IF lightID.kind = "undefined" THEN <<>> ELSE idsOf(lightID, h)

\* the outcome r of the processes before p, then p
after(p, r) == applyProcess(p, r.x, r.heap)

RECURSIVE Sequential(_, _, _, _)
\* the first n processes applied one after the other, each to what the one
\* before it left
Sequential(ps, n, x, h) ==
    IF n = 0 THEN out(x, h) ELSE after(ps[n], Sequential(ps, n - 1, x, h))

\* every registered condition of the running pipeline returns true for x
EveryConditionHolds(x, h) ==
    \A k \in 1..Len(runnerConditions) : conditionHolds(runnerConditions[k], x, h)

\* a step of events.forEach
ForEachStep == rpc = "run" /\ cursor' = cursor + 1

\* C11: processEvents applies the processes to an event if and only if
\* every registered condition returns true for it, and then applies all of
\* them in registration order, each to what the one before it left; an
\* event that fails a condition stays as it was.
C11_ProcessedIffEveryConditionInOrder ==
    [][ForEachStep =>
        IF EveryConditionHolds(events[cursor], heap)
        THEN /\ events'[cursor] = Sequential(processes, Len(processes), events[cursor], heap).x
             /\ heap' = Sequential(processes, Len(processes), events[cursor], heap).heap
        ELSE /\ events'[cursor] = events[cursor]
             /\ heap' = heap]_<<vars, remapVars>>

\* type(1) and IDs() passed the event with lightID 7, setIDs(7) then
\* addToEnd(10) gave it 17, and the event of type 2 stayed as it was
C11_Witness ==
    /\ rpc = "idle" /\ calls = <<"run">>
    /\ Len(conditions) = 2 /\ conditions[1].kind = "type" /\ conditions[2].kind = "IDs"
    /\ Len(processes) = 2 /\ processes[1].kind = "setIDs" /\ processes[2].kind = "addToEnd"
    /\ Len(events) = 2
    /\ events0[1].lightID = Number(Num(7))
    /\ events[1].lightID = Number(Num(17))
    /\ events[2] = events0[2] /\ heap = heap0

\* run has returned from the pipeline's one pass over the one event
RanOnOne == rpc = "idle" /\ calls = <<"run">> /\ Len(events) = 1

\* the event's light IDs when it was loaded and now
idsBefore == valuesOf(events0[1].lightID, heap0)
idsNow == valuesOf(events[1].lightID, heap)

RECURSIVE Coverage(_, _)
\* the raw value at which the k-th entry of a table begins
Coverage(map, k) ==
    IF k = 1 THEN map[1][1]
    ELSE Coverage(map, k - 1) + map[k - 1][2] * (map[k][1] - map[k - 1][1])

\* x lies strictly within the table's range and on no breakpoint boundary
InsideTable(x, map) ==
    /\ Len(map) >= 1
    /\ RGt(x, Num(Coverage(map, 1)))
    /\ RGt(Num(Coverage(map, Len(map))), x)
    /\ \A k \in 1..Len(map) : x # Num(Coverage(map, k))

\* normalizeWithChanges(map) then remapEnd(map, offset): applyLightMap on
\* what solveLightMap returned, with the same table
SolveThenApply ==
    /\ Len(processes) = 2
    /\ processes[1].kind = "normalizeWithChanges"
    /\ processes[2].kind = "remapEnd"
    /\ processes[2].map = processes[1].map

\* C12 as stated: for every x strictly within the table range and on no
\* breakpoint boundary, apply(table, offset, solve(table, x)) gives back x.
C12_ApplyUndoesSolve ==
    (/\ RanOnOne /\ SolveThenApply
     /\ Len(idsBefore) >= 1
     /\ \A k \in 1..Len(idsBefore) : InsideTable(idsBefore[k], processes[1].map))
    => idsNow = idsBefore

\* C12, amended: for every x >= 1 (within the table range or not, on a
\* breakpoint boundary or not), apply(table, offset, solve(table, x)) gives
\* x + offset, which is x only when the offset is 0.
C12_ApplyUndoesSolveUpToOffset ==
    (/\ RanOnOne /\ SolveThenApply
     /\ Len(idsBefore) >= 1
     /\ \A k \in 1..Len(idsBefore) : RGeq(idsBefore[k], Num(1)))
    => idsNow = [k \in 1..Len(idsBefore) |-> RAdd(idsBefore[k], Num(processes[2].offset))]

\* the table [[1, 2], [4, 1]] with offset 10 took 2, 4, 6 to 12, 14, 16;
\* solve had made them 1.5, 2.5, 3.5
C12_Witness ==
    /\ RanOnOne /\ SolveThenApply
    /\ processes[1].map = <<<<1, 2>>, <<4, 1>>>>
    /\ processes[2].offset = 10
    /\ idsBefore = Nums(<<2, 4, 6>>)
    /\ \A k \in 1..3 : InsideTable(idsBefore[k], processes[1].map)
    /\ solve(Num(2), Changes(processes[1].map)) = <<3, 2>>
    /\ idsNow = Nums(<<12, 14, 16>>)

\* the array 1, 2, ..., n
OneTo(n) == [k \in 1..n |-> Num(k)]

\* the only registered process is of this kind
OnlyProcess(kind) == Len(processes) = 1 /\ processes[1].kind = kind

\* ids are start, start + step, start + 2 * step, ...
Arithmetic(ids, start, step) ==
    /\ Len(ids) >= 1
    /\ \A k \in 1..Len(ids) : ids[k] = Num(start + (k - 1) * step)

\* C13: normalizeLinear(step, start) renumbers the light IDs start,
\* start + step, start + 2 * step, ... to 1, 2, 3, ...
C13_NormalizeLinearRenumbersFromOne ==
    (/\ RanOnOne /\ OnlyProcess("normalizeLinear")
     /\ Arithmetic(idsBefore, processes[1].start, processes[1].step))
    => idsNow = OneTo(Len(idsBefore))

RECURSIVE Element(_, _)
\* the step a table gives from the j-th element on: that of its last entry
\* whose start is at most j, and 1 before the first entry
StepFrom(map, j) ==
    IF \E k \in 1..Len(map) : map[k][1] <= j
    THEN map[CHOOSE k \in 1..Len(map) :
                 map[k][1] <= j /\ \A l \in 1..Len(map) : map[l][1] <= j => l <= k][2]
    ELSE 1

\* the j-th element of the sequence that starts at 1 and whose differences
\* change as the table says
Element(map, j) == IF j = 1 THEN 1 ELSE Element(map, j - 1) + StepFrom(map, j - 1)

\* ids are the first elements of the sequence the table describes
FollowsTable(ids, map) ==
    /\ Len(ids) >= 1
    /\ \A j \in 1..Len(ids) : ids[j] = Num(Element(map, j))

\* C14: normalizeWithChanges(map) renumbers to 1, 2, 3, ... every light-ID
\* sequence that starts at 1 and whose consecutive differences change as
\* the table says.
C14_NormalizeWithChangesRenumbers ==
    (/\ RanOnOne /\ OnlyProcess("normalizeWithChanges")
     /\ FollowsTable(idsBefore, processes[1].map))
    => idsNow = OneTo(Len(idsBefore))

\* 1, 3, 5, 6, 7 with the map [[1, 2], [3, 1]] became 1, 2, 3, 4, 5
C14_Witness ==
    /\ RanOnOne /\ OnlyProcess("normalizeWithChanges")
    /\ processes[1].map = <<<<1, 2>>, <<3, 1>>>>
    /\ idsBefore = Nums(<<1, 3, 5, 6, 7>>)
    /\ FollowsTable(idsBefore, processes[1].map)
    /\ idsNow = OneTo(5)

\* C15: addToEnd(offset, step) maps every light ID id of a processed event
\* to (id - 1) * step + 1 + offset whenever a step is given, whatever its
\* value, and to id + offset when none is given.
C15_AddToEndFormula ==
    (/\ RanOnOne /\ OnlyProcess("addToEnd")
     /\ Truthy(events0[1].lightID))
    => idsNow = [k \in 1..Len(idsBefore) |->
                    IF processes[1].stepGiven
                    THEN RAdd(RMul(RSub(idsBefore[k], Num(1)), Num(processes[1].step)),
                              Num(1 + processes[1].offset))
                    ELSE RAdd(idsBefore[k], Num(processes[1].offset))]

\* every registered process keeps the number of IDs
CardinalityKept ==
    /\ Len(processes) >= 1
    /\ \A k \in 1..Len(processes) :
          processes[k].kind \in {"normalizeLinear", "normalizeWithChanges", "addToEnd", "remapEnd"}

\* none of the registered processes divides
NoSolver ==
    \A k \in 1..Len(processes) : processes[k].kind \in {"addToEnd", "remapEnd"}

\* C16 as stated: after the processes that keep the number of IDs, an event
\* whose lightID was a single integer still has a single integer as
\* lightID, never a 1-element sequence.
C16_SingleIntegerStaysSingleInteger ==
    (/\ RanOnOne /\ CardinalityKept
     /\ events0[1].lightID.kind = "number")
    => (events[1].lightID.kind = "number" /\ IsInteger(events[1].lightID.num))

\* C16, amended: such an event still has a single number as lightID, never
\* a sequence; the number is an integer after addToEnd and remapEnd, and
\* may be a fraction after normalizeLinear and normalizeWithChanges.
C16_SingleNumberStaysSingleNumber ==
    (/\ RanOnOne /\ CardinalityKept
     /\ events0[1].lightID.kind = "number")
    => /\ events[1].lightID.kind = "number"
       /\ NoSolver => IsInteger(events[1].lightID.num)

\* remapEnd([[1, 2]], 10) took the single lightID 7 to the single 23, and
\* the heap holds no array
C16_Witness ==
    /\ RanOnOne /\ OnlyProcess("remapEnd")
    /\ processes[1].map = <<<<1, 2>>>> /\ processes[1].offset = 10
    /\ events0[1].lightID = Number(Num(7))
    /\ events[1].lightID = Number(Num(23))
    /\ heap = <<>>

\* the only registered condition is of this kind, and setType(2) marks the
\* events that pass
OnlyCondition(kind) ==
    Len(conditions) = 1 /\ conditions[1].kind = kind /\ processes = Marker

\* the ends of a registered range: a single number n means [n, n]
rangeMin(c) == c.range[1]
rangeMax(c) == c.range[Len(c.range)]

\* the event run handled was processed
Processed == events[1].type = 2 /\ events0[1].type = 1

\* C17: the range condition passes an event if and only if at least one of
\* its light IDs lies within the inclusive range [min, max], a single
\* number n meaning [n, n]; an event without lightID never passes.
C17_RangePassesIffSomeIDWithin ==
    (RanOnOne /\ OnlyCondition("range"))
    => (Processed <=>
            \E k \in 1..Len(idsBefore) :
                /\ idsBefore[k][1] >= rangeMin(conditions[1])
                /\ idsBefore[k][1] <= rangeMax(conditions[1]))

\* with the range [1, 4] the event with lightID [3, 9] was processed
C17_Witness ==
    /\ RanOnOne /\ OnlyCondition("range")
    /\ conditions[1].range = <<1, 4>>
    /\ idsBefore = Nums(<<3, 9>>)
    /\ Processed

\* a process that works on a field the event x lacks: the light-ID
\* processes and appendIDs without initialize for an event with no
\* lightID, multiplyColor for an event with no color
LacksItsField(p, x) ==
    \/ /\ x.lightID.kind = "undefined"
       /\ \/ p.kind \in {"normalizeLinear", "normalizeWithChanges", "addToEnd", "remapEnd"}
          \/ p.kind = "appendIDs" /\ ~p.initialize
    \/ p.kind = "multiplyColor" /\ ~x.color.present

\* what the j-th process receives and what it leaves, for the event at
\* the cursor
received(j) == Sequential(processes, j - 1, events[cursor], heap)
left(j) == Sequential(processes, j, events[cursor], heap)

\* C18: a process that receives an event lacking the field it works on
\* skips its effect (no lightID: normalizeLinear, normalizeWithChanges,
\* addToEnd, remapEnd, appendIDs with initialize = false; no color:
\* multiplyColor): it leaves the event and every array as it received
\* them, and when every registered process is such a process for the
\* event, processing leaves the event as it was.
C18_MissingFieldSkipped ==
    [][ForEachStep =>
        /\ \A j \in 1..Len(processes) :
              LacksItsField(processes[j], received(j).x) => left(j) = received(j)
        /\ (\A j \in 1..Len(processes) : LacksItsField(processes[j], events[cursor]))
              => (events' = events /\ heap' = heap)]_<<vars, remapVars>>

\* an event without lightID and color passed no conditions at all and went
\* through appendIDs(9, false) and multiplyColor, and is as it was loaded
C18_Witness ==
    /\ rpc = "idle" /\ calls = <<"run">>
    /\ conditions = <<>>
    /\ Len(processes) = 2
    /\ processes[1].kind = "appendIDs" /\ ~processes[1].initialize
    /\ processes[2].kind = "multiplyColor"
    /\ Len(events) >= 1
    /\ events0[1].lightID.kind = "undefined" /\ ~events0[1].color.present
    /\ events = events0 /\ heap = heap0

\* whatever lightID an event arrives with, the registered setIDs processes
\* leave it with the lightID they were given
SetIDsSets ==
    \A j \in 1..Len(processes), k \in 1..Len(events) :
        processes[j].kind = "setIDs"
        => Sequential(processes, j, events[k], heap).x.lightID = processes[j].lightID

\* the pipeline setIDs returned has the conditions (and, sharing the array,
\* the processes) of the remapper, so that either handles every event alike
SamePipeline ==
    /\ lightOverrider.conditions = conditions
    /\ \A k \in 1..Len(events) :
          processEvent(lightOverrider.conditions, processes, events[k], heap)
              = processEvent(conditions, processes, events[k], heap)

NoTestYet == \A k \in 1..Len(calls) : calls[k] # "test"

\* C19 as stated: setIDs(v) makes every processed event end that step with
\* lightID v, and the pipeline it returns has the same conditions and the
\* same processes as the pipeline it was called on, so running either one
\* changes the same events in the same way.
C19_ReducedPipelineSame ==
    SetIDsSets /\ (lightOverrider.made => SamePipeline)

\* C19, amended: the same, as long as test has not been called on the
\* remapper: test gives the remapper a new, empty conditions array and
\* leaves the returned pipeline the old one.
C19_ReducedPipelineSameUntilTest ==
    SetIDsSets /\ ((lightOverrider.made /\ NoTestYet) => SamePipeline)

\* setIDs([1, 3, 5]) was registered, then type(1) reached both pipelines;
\* run on the returned pipeline set the lightID of the event of type 1 and
\* left the event of type 2
C19_Witness ==
    /\ rpc = "idle" /\ calls = <<"run">> /\ runner = "lightOverrider"
    /\ Len(conditions) = 1 /\ conditions[1].kind = "type"
    /\ lightOverrider.conditions = conditions
    /\ Len(processes) = 1 /\ processes[1].kind = "setIDs"
    /\ processes[1].lightID.kind = "object"
    /\ Len(events) = 2
    /\ events0[1].lightID = Number(Num(7))
    /\ events[1].lightID = processes[1].lightID
    /\ events[2] = events0[2]

\* a step that is a call of test
TestStep == calls' = Append(calls, "test")

\* the light IDs of the k-th event of the active difficulty
eventIDs(k) == valuesOf(events[k].lightID, heap)

\* C20: test(ids) is a dry run: it clears the registered conditions,
\* applies every registered process in order to exactly one synthetic
\* event whose lightID is ids, and changes no event of the active
\* difficulty.
C20_TestIsDryRun ==
    [][TestStep =>
        /\ conditions' = <<>>
        /\ Len(testEvent') = Len(testEvent) + 1
        /\ testEvent'[Len(testEvent')] =
               Sequential(processes, Len(processes), synthetic(Array(Len(heap) + 1)),
                          Append(heap, Nums(<<1, 3, 5>>))).x
        /\ events' = events
        /\ \A k \in 1..Len(events) :
              valuesOf(events'[k].lightID, heap') = eventIDs(k)]_<<vars, remapVars>>

---------------------------------------------------------------------------
(* Further properties of the optimizer *)

OnlySlope ==
    /\ settings.optimize
    /\ ~settings.optimizeDuplicates.active
    /\ ~settings.optimizeSimilarPoints.active
    /\ settings.optimizeSimilarPointsSlope.active

\* what the slope predicate returns for the triple when it is given the
\* thresholds of settings.optimizeSimilarPointsSlope
SlopeByItsOwnSettings ==
    optimizeSimilarPointsSlope(pointA, pointB, pointC, dummyArrays,
        settings.optimizeSimilarPointsSlope.differenceThreshold,
        settings.optimizeSimilarPointsSlope.timeDifferenceThreshold,
        settings.optimizeSimilarPointsSlope.yInterceptDifferenceThreshold).ret

\* C21: the slope predicate that optimizePoints evaluates is governed by the
\* slope settings only: with the slope family alone active, processPoints
\* reports the triple passed (and nothing is spliced) exactly when the slope
\* predicate under settings.optimizeSimilarPointsSlope's own difference and
\* time-difference thresholds flags it, whatever the thresholds of
\* settings.optimizeSimilarPoints are.
C21_SlopeGovernedBySlopeSettings ==
    [][(AtTriple /\ OnlySlope /\ SlopeByItsOwnSettings # "throw" /\ pc' # "error")
        => ((Len(points') = Len(points)) <=> SlopeByItsOwnSettings = "point")]_vars

---------------------------------------------------------------------------
(* Further properties of the light remapper *)

\* the caller's arrays that setIDs and initIDs were handed
Registered ==
    {processes[j].lightID.ref : j \in {l \in 1..Len(processes) :
        /\ processes[l].kind \in {"setIDs", "initIDs"}
        /\ processes[l].lightID.kind = "object"}}

\* the arrays as they were when run was called: those of the loaded events
\* and the arrays [1, 3, 5] the script registered
atRun ==
    [j \in 1..(Len(heap0) + Cardinality(Registered)) |->
        IF j <= Len(heap0) THEN heap0[j] ELSE Nums(<<1, 3, 5>>)]

\* what the pipeline makes of the k-th event when it is the only one
alone(k) == processEvent(runnerConditions, processes, events0[k], atRun)

\* the one run the script made has returned
Finished == rpc = "idle" /\ calls = <<"run">>

\* C22: after a pipeline run every event has the type, the color and the
\* light IDs that the pipeline gives its own initial fields, independently
\* of the other events, and the arrays that were passed to setIDs and
\* initIDs hold what the caller put there.
C22_EventsIndependent ==
    Finished =>
        /\ \A k \in 1..Len(events) :
              /\ events[k].type = alone(k).x.type
              /\ events[k].color = alone(k).x.color
              /\ events[k].lightID.kind = alone(k).x.lightID.kind
              /\ valuesOf(events[k].lightID, heap) = valuesOf(alone(k).x.lightID, alone(k).heap)
        /\ \A ref \in Registered : heap[ref] = Nums(<<1, 3, 5>>)

---------------------------------------------------------------------------
(* Further properties of the optimizer, continued *)

OnlySimilarPoints ==
    /\ settings.optimize
    /\ ~settings.optimizeDuplicates.active
    /\ settings.optimizeSimilarPoints.active
    /\ ~settings.optimizeSimilarPointsSlope.active

\* every value channel and the time differ by strictly less than the
\* thresholds of settings.optimizeSimilarPoints
StrictlySimilar(a, b) ==
    /\ Len(a.values) = Len(b.values)
    /\ \A k \in 1..Len(a.values) :
          Abs(a.values[k] - b.values[k]) < settings.optimizeSimilarPoints.differenceThreshold
    /\ Abs(a.time - b.time) < settings.optimizeSimilarPoints.timeDifferenceThreshold

\* C23: the 2-point similar-points test reports A and B similar (so that,
\* with the similar-points family alone active, processPoints passes the
\* pair and nothing is spliced) if and only if every value channel differs
\* by strictly less than differenceThreshold and the times differ by
\* strictly less than timeDifferenceThreshold.
C23_SimilarIffStrictlyBelowThresholds ==
    [][(/\ AtPair /\ OnlySimilarPoints
        /\ SameTags(pointA, pointB)
        /\ Len(pointA.values) = Len(pointB.values))
       => ((points' = points) <=> StrictlySimilar(pointA, pointB))]_vars

\* the keyframe handed over as pointB differs in easing or spline from a
\* neighbour it is compared with
TagsDiffer ==
    \/ ~SameTags(pointA, pointB)
    \/ (AtTriple /\ ~SameTags(pointB, pointC))

\* C24: when the easing or spline of keyframe B differs from that of a
\* neighbour it is compared with, no predicate (duplicates, similar points,
\* slope) that optimizePoints evaluates on the pair or triple flags B as
\* removable.
C24_DifferentTagsNeverFlagged ==
    ((AtPair \/ AtTriple) /\ TagsDiffer)
        => (~DuplicatesFlags /\ ~SimilarPointsFlags /\ ~SlopeFlags)

\* the values of B and C are similar within the threshold and the time gap
\* between B and C exceeds it
PauseTriple(differenceThreshold) ==
    /\ AtTriple
    /\ areFloatsSimilar(Nums(pointC.values), Nums(pointB.values), differenceThreshold) = "true"
    /\ Abs(pointC.time - pointB.time) > differenceThreshold

\* the triple is a keyframe pause for the threshold the slope predicate is
\* handed as well as for the one of the slope settings
KeyframePause ==
    /\ PauseTriple(settings.optimizeSimilarPoints.differenceThreshold)
    /\ PauseTriple(settings.optimizeSimilarPointsSlope.differenceThreshold)

\* C25: in a triple (A, B, C) where the values of B and C are similar within
\* differenceThreshold while the time gap between B and C exceeds it, the
\* slope predicate does not flag B, and an optimizePoints call with the
\* slope predicate active does not remove B in the step that evaluates the
\* triple.
C25_KeyframePauseKept ==
    [][(KeyframePause /\ settings.optimizeSimilarPointsSlope.active)
       => (~SlopeFlags /\ points' = points)]_vars

\* the first half of C25 alone: the slope predicate does not flag B
PauseNeverFlagged ==
    (KeyframePause /\ settings.optimizeSimilarPointsSlope.active) => ~SlopeFlags

---------------------------------------------------------------------------
(* The scan of optimizePoints over longer arrays: up to MaxScanLen          *)
(* keyframes of few shapes, so that a pass goes on after a removal.        *)

MaxScanLen == 4

ScanShapes == [time : {0, 1}, values : {<<0>>, <<1>>}, easing : DefaultEasing, spline : DefaultSpline]

ScanSettings ==
    {s \in Enabled : /\ s.optimizeSimilarPoints.differenceThreshold = 1
                     /\ s.optimizeSimilarPoints.timeDifferenceThreshold = 0}

\* a call of optimizePoints on keyframes of the given shapes
InitScanOver(shapes, settingsSet) ==
    /\ NoRemapper
    /\ NoDifficulty
    /\ \E kfs \in UNION {[1..n -> shapes] : n \in 0..MaxScanLen} : points = WithIds(kfs)
    /\ input = points
    /\ settings \in settingsSet
    /\ passes \in 0..MaxPasses
    /\ pc = "call"
    /\ pass = 0
    /\ i = 0
    /\ result = "none"
    /\ dummyArrays = <<<<>>, <<>>, <<>>, <<>>>>
    /\ second = FALSE

InitScan == InitScanOver(ScanShapes, ScanSettings)

SpecScan == InitScan /\ [][Next]_vars

\* for termination: keyframes that differ in time only, one family active
FairShapes == [time : {0, 1}, values : {<<0>>}, easing : DefaultEasing, spline : DefaultSpline]

FairSettings ==
    {s \in ScanSettings :
        Cardinality({f \in {"optimizeDuplicates", "optimizeSimilarPoints",
                            "optimizeSimilarPointsSlope"} : s[f].active}) = 1}

InitFair == InitScanOver(FairShapes, FairSettings)

\* the loops of lines 255-267 run on: no cancellation, no timeout
SpecScanFair == InitFair /\ [][Next]_vars /\ WF_vars(Next)

\* a step of the inner loop that evaluates a triple and does not throw
ScanEvaluates == AtTriple /\ pc' = "scan"

\* C26: within one pass, after points[i] is removed the scan does not
\* advance: the next triple is (points[i-1], the new points[i],
\* points[i+1]), the removed keyframe's old neighbours and their follower;
\* after a keyframe is kept the scan advances by one; and the scan ends
\* only behind the last interior keyframe, so that none is skipped.
C26_ScanRecentersOnRemoval ==
    [][/\ ScanEvaluates =>
            IF Len(points') < Len(points)
            THEN /\ i' = i
                 /\ points' = splice(points, i)
                 /\ points'[i] = pointA
                 /\ points'[i + 1] = pointC
            ELSE /\ i' = i + 1
                 /\ points' = points
       /\ (pc = "pass" /\ pc' = "scan") => i' = 1
       /\ (pc = "scan" /\ pc' = "pass") => i >= Len(points) - 1]_vars

\* two keyframes went at the same index in the first pass over 4 keyframes:
\* the triple the scan re-centered on was evaluated
C26_Witness ==
    /\ pc = "scan" /\ pass = 0
    /\ i = 1
    /\ Len(input) = 4
    /\ points = <<SortByTime(input)[1], SortByTime(input)[4]>>

\* C29: optimizePoints terminates for every keyframe sequence and every
\* passes value: the call returns or throws after finitely many steps.
C29_Terminates == <>(pc \in {"done", "error"})

\* all passes of a call with the greatest passes value completed although
\* the cursor was stepped back after removals
C29_Witness ==
    /\ pc = "done" /\ result = "points"
    /\ passes = MaxPasses /\ pass = passes
    /\ Len(input) = MaxScanLen
    /\ Len(points) < Len(input)

\* the conditions of the running pipeline that return false for the event
\* forEach has just handled
failing ==
    {k \in 1..Len(runnerConditions) :
        ~conditionHolds(runnerConditions[k], events[cursor], heap)}

\* C27: for each event, condition evaluation short-circuits on the first
\* failure: once a condition returns false for an event, no condition
\* registered after it is evaluated on that event.
C27_ConditionsShortCircuit ==
    [][ForEachStep =>
        \A k \in failing : \A j \in 1..Len(evaluated') : evaluated'[j] <= k]_<<vars, remapVars>>

\* the one event run handled had the integer 0 as lightID
ZeroID == RanOnOne /\ events0[1].lightID = Number(Num(0))

\* the condition lets the light ID 0 through: IDs(), IDs([.., 0, ..]) or a
\* range that holds 0
AcceptsZero(c) ==
    \/ c.kind = "IDs" /\ ~c.given
    \/ c.kind = "IDs" /\ c.given /\ \E k \in 1..Len(c.lightIDs) : c.lightIDs[k] = Num(0)
    \/ c.kind = "range" /\ rangeMin(c) <= 0 /\ 0 <= rangeMax(c)

\* what the processes make of the event when its light ID 0 is held as the
\* 1-element array [0], which every presence test accepts
asPresent ==
    Sequential(processes, Len(processes),
               [events0[1] EXCEPT !.lightID = Array(Len(heap0) + 1)],
               Append(heap0, <<Num(0)>>))

\* C28: a light ID equal to 0 counts as a present light ID everywhere: an
\* event whose lightID is the integer 0 passes IDs(), IDs([0]) and every
\* range that holds 0, and normalizeLinear, normalizeWithChanges, addToEnd,
\* remapEnd and appendIDs give it the light IDs they give any present ID,
\* while initIDs leaves it as it is.
C28_ZeroIsPresent ==
    ZeroID =>
        /\ (Len(conditions) = 1 /\ AcceptsZero(conditions[1])) => Processed
        /\ conditions = <<>> => idsNow = valuesOf(asPresent.x.lightID, asPresent.heap)

\* the part of C28 that is about range
ZeroInRange ==
    (ZeroID /\ Len(conditions) = 1 /\ conditions[1].kind = "range" /\ AcceptsZero(conditions[1]))
        => Processed

---------------------------------------------------------------------------
(* The typed custom-event accessors of Difficulty (src/src/beatmap.ts).    *)
(* A custom event is its identity and the class it is an instance of; the  *)
(* script calls the accessors in any order, each with a callback that     *)
(* leaves its array as it is.                                              *)

MaxCustomEvents == 3

\* custom_event.ts: the classes the accessors test with instanceof, none a
\* subclass of another
Classes ==
    {"AnimateTrack", "AssignPathAnimation", "AssignTrackParent", "AssignPlayerToTrack",
     "AssignFogTrack", "AbstractEvent"}

\* this.customEvents.filter(x => x instanceof class)
instancesOf(class) == SelectSeq(customEvents, LAMBDA x : x.class = class)

\* this.customEvents.filter(x => !(x instanceof class))
others(class) == SelectSeq(customEvents, LAMBDA x : x.class # class)

\* an accessor body: arr is the instances of taken, fn(arr) leaves arr as it
\* is, and the setter stores the events that are no instance of removed
\* followed by arr
regroup(taken, removed) ==
    /\ Len(customEvents) <= MaxCustomEvents
    /\ customEvents' = others(removed) \o instancesOf(taken)
    /\ UNCHANGED customEvents0
    /\ UNCHANGED vars
    /\ UNCHANGED remapVars

\* lines 367-371
animateTracks == regroup("AnimateTrack", "AnimateTrack")

\* lines 372-376
assignPathAnimations == regroup("AssignPathAnimation", "AssignPathAnimation")

\* lines 377-381
assignTrackParents == regroup("AssignTrackParent", "AssignTrackParent")

\* lines 382-386
assignPlayerToTracks == regroup("AssignPlayerToTrack", "AssignPlayerToTrack")

\* lines 387-391: line 390 filters out the instances of AnimateTrack
assignFogTracks == regroup("AssignFogTrack", "AnimateTrack")

\* lines 392-396
abstractEvents == regroup("AbstractEvent", "AbstractEvent")

\* a difficulty just loaded: up to MaxCustomEvents custom events
InitDiff ==
    /\ NoOptimizer
    /\ NoRemapper
    /\ \E n \in 0..MaxCustomEvents : \E classes \in [1..n -> Classes] :
          customEvents = [k \in 1..n |-> [id |-> k, class |-> classes[k]]]
    /\ customEvents0 = customEvents

NextDiff ==
    \/ animateTracks \/ assignPathAnimations \/ assignTrackParents
    \/ assignPlayerToTracks \/ assignFogTracks \/ abstractEvents

SpecDiff == InitDiff /\ [][NextDiff]_<<vars, remapVars, diffVars>>

\* how often the custom event e is in the collection
occurrences(e) == Cardinality({k \in 1..Len(customEvents) : customEvents[k] = e})

\* C30: after any sequence of calls of the typed accessors (animateTracks,
\* assignPathAnimations, assignTrackParents, assignPlayerToTracks,
\* assignFogTracks, abstractEvents) with callbacks that leave their array
\* unchanged, every custom event that was loaded is in the collection
\* exactly once and nothing else is.
C30_CustomEventsPreserved ==
    /\ Len(customEvents) = Len(customEvents0)
    /\ \A k \in 1..Len(customEvents0) : occurrences(customEvents0[k]) = 1
=============================================================================
